---- MODULE Spec2Model ----
(***************************************************************************)
(* EUKARYOME pre-processing pipeline                                       *)
(* (formats/v1_8/EUKARYOME_preprocossing_pipe.py).                         *)
(*                                                                         *)
(* Spec      : one or more runs of main() over a directory of input files: *)
(*             the orchestrator, the per-file workers of each stage, the   *)
(*             JSON state file and the stage directories, with I/O errors  *)
(*             and process kills.                                          *)
(* SpecDedup : eliminate_duplicates_in_file on one FASTA file, line by     *)
(*             line.                                                       *)
(* SpecStd   : standardize_dereplicated_headers_file on one FASTA file,    *)
(*             applied to the file and then to its own output.             *)
(* SpecPre   : preprocess_single_fasta on one FASTA file.                  *)
(* SpecConv  : the read and write of convert_single_txt on the bytes of    *)
(*             one input file.                                             *)
(* SpecState : a sequence of update_state calls of one process on one      *)
(*             state dict, each ending with save_state.                    *)
(* SpecReport: generate_duplicate_reports on one input directory.          *)
(* FairSpec  : one run of main() under weak fairness of the program steps. *)
(***************************************************************************)
EXTENDS FiniteSets, Integers, Naturals, Sequences, TLC

VARIABLES
    mainpc,        \* position of main() ("killed": the process was killed)
    run,           \* number of the current run of main()
    fs,            \* directory -> (file name -> content)
    stateFile,     \* STATE_FILE on disk
    tpc,           \* stage -> (file name -> position of the worker call)
    wstate,        \* worker call -> what it holds in memory (the `state` dict
                   \* of convert_single_txt, the open infile of
                   \* preprocess_single_fasta)
    prevConverted, \* names marked converted in STATE_FILE when the run started
    prevFinal,     \* in the run that follows the first one: <<final output
                   \* files of the first run>> if that ran to its end without
                   \* I/O error; else <<>>
    faults,        \* I/O errors raised so far in this run
    critical,      \* the exception logged by logging.critical before sys.exit(1)
    \* ---- eliminate_duplicates_in_file (SpecDedup) ----
    lines,         \* the lines of the input file
    pos,           \* number of lines consumed
    sequences,     \* acc_id -> <<header, seq_str>>
    order,         \* acc_ids in order of first appearance
    current_header,
    current_seq,
    outFile,       \* the records written to output_filepath
    dpc,           \* position in eliminate_duplicates_in_file
    \* ---- one function on one file (SpecStd, SpecPre, SpecConv) ----
    infile,          \* the file read: its lines, each with its terminator
                     \* (SpecConv: its bytes)
    outfile,         \* the lines (SpecConv: the bytes) written
    expected_fields, \* the argument expected_fields
    passes,          \* number of applications so far
    \* ---- a sequence of update_state calls (SpecState) ----
    memory,        \* the dict `state` the calls are made on
    recent,        \* <<filename, stage>> -> arguments of the most recent call
    calls,         \* number of calls that have returned
    loaded,        \* <<what the last load_state call found and returned>>
    \* ---- generate_duplicate_reports (SpecReport) ----
    input_dir,     \* file name -> the lines of the file
    analysis,      \* file name of os.listdir(input_dir) -> "todo", "skipped"
                   \* (not .fasta), "ok", "err" (the except branch was taken)
    duplicate_full_headers,   \* rows [Filename, Header, Count, Line Numbers]
    duplicate_accessions,     \* rows [Filename, Accession ID, Count, Headers]
    report_dir,    \* report file -> the rows written to it
    rpc            \* position in generate_duplicate_reports

pipeVars == <<mainpc, run, fs, stateFile, tpc, wstate, prevConverted, prevFinal, faults,
              critical>>
dedupVars == <<lines, pos, sequences, order, current_header, current_seq, outFile, dpc>>
headerVars == <<infile, outfile, expected_fields, passes>>
storeVars == <<memory, recent, calls, loaded>>
reportVars == <<input_dir, analysis, duplicate_full_headers, duplicate_accessions,
                report_dir, rpc>>
vars == <<pipeVars, dedupVars, headerVars, storeVars, reportVars>>
\* what a step of one specification leaves alone
notPipe == <<dedupVars, headerVars, storeVars, reportVars>>
notDedup == <<pipeVars, headerVars, storeVars, reportVars>>
notHeader == <<pipeVars, dedupVars, storeVars, reportVars>>
notStore == <<mainpc, run, fs, tpc, wstate, prevConverted, prevFinal, critical,
              dedupVars, headerVars, reportVars>>
notReport == <<pipeVars, dedupVars, headerVars, storeVars>>

----------------------------------------------------------------------------
(* Bounds *)
MaxRuns == 2
MaxFaults == 1
MaxPasses == 2
MaxFileLines == 2
MaxCalls == 3
MaxBytes == 3

(* Program constants *)
MAX_PROCESSES == 8

----------------------------------------------------------------------------
(* Finite maps (dicts, directories) *)
Empty == <<>>
Put(d, k, v) == [x \in (DOMAIN d) \cup {k} |-> IF x = k THEN v ELSE d[x]]
Del(d, k) == [x \in (DOMAIN d) \ {k} |-> d[x]]

(* File names: stem and extension *)
Name(stem, ext) == [stem |-> stem, ext |-> ext]
EndsWith(n, ext) == n.ext = ext
\* (mutant) splitext(file)[1] for splitext(file)[0]: every file gets the
\* base name ".txt.fasta"
BaseOfExtension(file) == Name("." \o file.ext, "fasta")

\* os.path.splitext(file)[0] + ".fasta"
Base(file) == Name(file.stem, "fasta")
\* f"tmp_{filename}"
TmpName(filename) == Name("tmp_" \o filename.stem, filename.ext)

\* the .txt files the input directory may hold
InputUniverse == {Name("a", "txt"), Name("tmp_a", "txt")}

\* what the input directory may hold when main() starts: .txt files, or a
\* .txt file beside a .fasta file
InputSets ==
    ((SUBSET InputUniverse) \ {{}}) \cup {{Name("a", "txt"), Name("b", "fasta")}}

\* [f for f in os.listdir(dir) if f.endswith(ext)]
Listing(dir, ext) == {n \in DOMAIN dir : EndsWith(n, ext)}

(* File contents: the input's identity followed by the transformations *)
(* applied to it; "cut" marks a file whose writer stopped half-way.     *)
Original(n) == <<n.stem>>
Applied(c, op) == Append(c, op)
Partial(c) == Append(c, "cut")

Stages == <<"convert", "preprocess", "hyphens", "dedup", "standardize">>
StageSet == {Stages[i] : i \in 1..Len(Stages)}
\* (mutant) the result of a call that ended in an error is never delivered
TerminalWithoutError == {"ok", "skipped"}
Terminal == {"ok", "err", "skipped"}

----------------------------------------------------------------------------
(* State store: load_state / save_state / update_state *)

NoStateFile == [kind |-> "absent", map |-> Empty]
\* open(STATE_FILE, "w") has truncated the file, json.dump has not finished
TruncatedStateFile == [kind |-> "partial", map |-> Empty]
JsonStateFile(m) == [kind |-> "json", map |-> m]

\* (mutant) the file is never read
LoadStateNone(file) == Empty

\* {} when the file is absent or json.load raises
LoadState(file) == IF file.kind = "json" THEN file.map ELSE Empty

NewEntry == [converted |-> FALSE, duplicates |-> FALSE, filtered |-> FALSE,
             errors |-> Empty]

\* update_state without its final save_state(state)
UpdateState(state, filename, stage, success, error_msg) ==
    LET s1 == IF filename \in DOMAIN state THEN state
              ELSE Put(state, filename, NewEntry)
        e1 == [s1[filename] EXCEPT ![stage] = success]
        e2 == [e1 EXCEPT !.errors = IF success THEN Del(@, stage)
                                    ELSE Put(@, stage, error_msg)]
    IN  Put(s1, filename, e2)

\* state.get(base, {}).get("converted", False)
IsConverted(state, base) == base \in DOMAIN state /\ state[base].converted

ConvertedIn(file) == {b \in DOMAIN LoadState(file) : LoadState(file)[b].converted}

----------------------------------------------------------------------------
(* Helpers of the orchestration *)

SetPc(s, n, p) == [tpc EXCEPT ![s] = Put(@, n, p)]
At(s, n, p) == n \in DOMAIN tpc[s] /\ tpc[s][n] = p
Alive == mainpc # "killed"

\* the worker calls of stage s that are executing
Active(s) == {n \in DOMAIN tpc[s] : tpc[s][n] \notin Terminal \cup {"todo"}}
AllActive == UNION {Active(s) : s \in StageSet}

\* a pool worker is free to take the next call of executor.map
WorkerFree == Cardinality(AllActive) < MAX_PROCESSES

\* an I/O operation of this run may raise
MayFail == faults < MaxFaults

\* (mutant) the calls are submitted and started but their results are not
\* awaited
AllStarted(s) == \A n \in DOMAIN tpc[s] : tpc[s][n] # "todo"

\* list(executor.map(...)) and the executor's shutdown have returned
Joined(s) == \A n \in DOMAIN tpc[s] : tpc[s][n] \in Terminal

\* executor.map(worker, files): one pending call per listed file
Submit(s, files) == [tpc EXCEPT ![s] = [n \in files |-> "todo"]]

NoTasks == [s \in StageSet |-> Empty]

----------------------------------------------------------------------------
(* Cleanup: clear_previous_run *)

\* the directories of main(): original_input_dir and directories_to_clear
GeneratedDirs == {"converted", "preprocessed", "final", "reports", "dedup",
                  "standardized"}
DirNames == {"input"} \cup GeneratedDirs

\* outfile opened with 'w': the file exists and is empty
Opened(dir, n) == [fs EXCEPT ![dir] = Put(@, n, Partial(Empty))]
Written(dir, n, c) == [fs EXCEPT ![dir] = Put(@, n, c)]

\* for directory in directories: clear_directory(directory)
ClearDirs ==
    /\ mainpc = "clear_dirs"
    /\ fs' = [d \in DirNames |-> IF d \in GeneratedDirs THEN Empty ELSE fs[d]]
    /\ mainpc' = "clear_state"
    /\ UNCHANGED <<run, stateFile, tpc, wstate, prevConverted, prevFinal, critical, faults>>
    /\ UNCHANGED notPipe

\* (mutant) the state file of the previous run is kept
StateFileKept ==
    /\ mainpc = "clear_state"
    /\ mainpc' = "convert"
    /\ tpc' = Submit("convert", Listing(fs["input"], "txt"))
    /\ UNCHANGED <<run, fs, stateFile, wstate, prevConverted, prevFinal, critical, faults>>
    /\ UNCHANGED notPipe

\* if os.path.exists(state_file): os.remove(state_file);
\* then convert_txt_to_fasta lists the .txt files and submits them
ClearState ==
    /\ mainpc = "clear_state"
    /\ stateFile' = NoStateFile
    /\ mainpc' = "convert"
    /\ tpc' = Submit("convert", Listing(fs["input"], "txt"))
    /\ UNCHANGED <<run, fs, wstate, prevConverted, prevFinal, critical, faults>>
    /\ UNCHANGED notPipe

----------------------------------------------------------------------------
(* Stage 1: convert_single_txt, one call per .txt file *)

\* what the call does after load_state: skip, or open and read the input
\* (which may raise)
ConvEntry(st, f) ==
    IF IsConverted(st, Base(f)) THEN {"skipped"}
    ELSE {"read"} \cup (IF MayFail THEN {"except"} ELSE {})

\* state = load_state(); skip check; open(input_filepath).read()
ConvLoad(f) ==
    /\ Alive /\ At("convert", f, "todo") /\ WorkerFree
    /\ wstate' = Put(wstate, f, LoadState(stateFile))
    /\ \E p \in ConvEntry(LoadState(stateFile), f) :
          /\ tpc' = SetPc("convert", f, p)
          /\ faults' = IF p = "except" THEN faults + 1 ELSE faults
    /\ UNCHANGED <<mainpc, run, fs, stateFile, prevConverted, prevFinal, critical>>
    /\ UNCHANGED notPipe

\* open(output_filepath, 'w'): the output exists, empty
ConvOpenOut(f) ==
    /\ Alive /\ At("convert", f, "read")
    /\ fs' = Opened("converted", Base(f))
    /\ tpc' = SetPc("convert", f, "writing")
    /\ UNCHANGED <<mainpc, run, stateFile, wstate, prevConverted, prevFinal, critical, faults>>
    /\ UNCHANGED notPipe

\* outfile.write(content) and close
ConvWrite(f) ==
    /\ Alive /\ At("convert", f, "writing")
    /\ fs' = Written("converted", Base(f), fs["input"][f])
    /\ tpc' = SetPc("convert", f, "wrote")
    /\ UNCHANGED <<mainpc, run, stateFile, wstate, prevConverted, prevFinal, critical, faults>>
    /\ UNCHANGED notPipe

\* outfile.write(content) raises: the output stays as it is
ConvWriteFail(f) ==
    /\ Alive /\ At("convert", f, "writing")
    /\ MayFail
    /\ faults' = faults + 1
    /\ tpc' = SetPc("convert", f, "except")
    /\ UNCHANGED <<mainpc, run, fs, stateFile, wstate, prevConverted, prevFinal, critical>>
    /\ UNCHANGED notPipe

\* (mutant) the except branch records a success as well
ConvSuccessAlways(f) == At("convert", f, "wrote") \/ At("convert", f, "except")
\* the success flag update_state is called with
ConvSuccess(f) == At("convert", f, "wrote")

\* update_state(state, base, "converted", ok, err) up to the
\* open(STATE_FILE, "w") of save_state, which truncates the file
ConvSaveOpen(f) ==
    /\ Alive
    /\ At("convert", f, "wrote") \/ At("convert", f, "except")
    /\ wstate' = Put(wstate, f,
           UpdateState(wstate[f], Base(f), "converted", ConvSuccess(f),
                       IF ConvSuccess(f) THEN "" ELSE "Conversion error"))
    /\ tpc' = SetPc("convert", f, IF ConvSuccess(f) THEN "saving_ok"
                                  ELSE "saving_err")
    /\ stateFile' = TruncatedStateFile
    /\ UNCHANGED <<mainpc, run, fs, prevConverted, prevFinal, critical, faults>>
    /\ UNCHANGED notPipe

\* update_state(...) when the open(STATE_FILE, "w") of save_state raises: the
\* error is logged, the file stays as it is and the call returns its result
ConvSaveFail(f) ==
    /\ Alive
    /\ At("convert", f, "wrote") \/ At("convert", f, "except")
    /\ MayFail
    /\ faults' = faults + 1
    /\ wstate' = Put(wstate, f,
           UpdateState(wstate[f], Base(f), "converted", ConvSuccess(f),
                       IF ConvSuccess(f) THEN "" ELSE "Conversion error"))
    /\ tpc' = SetPc("convert", f, IF ConvSuccess(f) THEN "ok" ELSE "err")
    /\ UNCHANGED <<mainpc, run, fs, stateFile, prevConverted, prevFinal, critical>>
    /\ UNCHANGED notPipe

\* json.dump(state, f, indent=4) and close
ConvSaveDump(f) ==
    /\ Alive
    /\ At("convert", f, "saving_ok") \/ At("convert", f, "saving_err")
    /\ tpc' = SetPc("convert", f, IF At("convert", f, "saving_ok") THEN "ok"
                                  ELSE "err")
    /\ stateFile' = JsonStateFile(wstate[f])
    /\ UNCHANGED <<mainpc, run, fs, wstate, prevConverted, prevFinal, critical, faults>>
    /\ UNCHANGED notPipe

\* convert_txt_to_fasta returns
JoinConvert ==
    /\ mainpc = "convert"
    /\ Joined("convert")
    /\ mainpc' = "copy"
    /\ UNCHANGED <<run, fs, stateFile, tpc, wstate, prevConverted, prevFinal, critical, faults>>
    /\ UNCHANGED notPipe

----------------------------------------------------------------------------
(* Step 2 of main: copy converted_dir to preprocessed_dir, file by file, *)
(* in the main process and outside any try                               *)

ToCopy == Listing(fs["converted"], "fasta") \ DOMAIN fs["preprocessed"]

\* f_out.write(f_in.read())
CopyFile(n) ==
    /\ mainpc = "copy"
    /\ n \in ToCopy
    /\ fs' = Written("preprocessed", n, fs["converted"][n])
    /\ UNCHANGED <<mainpc, run, stateFile, tpc, wstate, prevConverted, prevFinal, critical, faults>>
    /\ UNCHANGED notPipe

\* open or write raises: the exception leaves main(), the __main__ guard
\* logs it and calls sys.exit(1)
CopyFail(n) ==
    /\ mainpc = "copy"
    /\ n \in ToCopy
    /\ MayFail
    /\ faults' = faults + 1
    /\ mainpc' = "crashed"
    /\ critical' = <<"copy", n>>
    /\ UNCHANGED <<run, fs, stateFile, tpc, wstate, prevConverted, prevFinal>>
    /\ UNCHANGED notPipe

\* the loop ends; preprocess_fasta_files lists and submits
CopyDone ==
    /\ mainpc = "copy"
    /\ ToCopy = {}
    /\ mainpc' = "preprocess"
    /\ tpc' = Submit("preprocess", Listing(fs["preprocessed"], "fasta"))
    /\ UNCHANGED <<run, fs, stateFile, wstate, prevConverted, prevFinal, critical, faults>>
    /\ UNCHANGED notPipe

----------------------------------------------------------------------------
(* Stage 2: preprocess_single_fasta, header cleaning through tmp_<filename> *)

\* open(filepath, 'r') and open(tmp_filepath, 'w')
PreOpen(n) ==
    /\ Alive /\ At("preprocess", n, "todo") /\ WorkerFree
    /\ n \in DOMAIN fs["preprocessed"]
    /\ fs' = Opened("preprocessed", TmpName(n))
    /\ wstate' = Put(wstate, n, fs["preprocessed"][n])
    /\ tpc' = SetPc("preprocess", n, "open")
    /\ UNCHANGED <<mainpc, run, stateFile, prevConverted, prevFinal, critical, faults>>
    /\ UNCHANGED notPipe

\* open raises (always when filepath is no longer there); the handler
\* removes whatever file is at tmp_filepath
PreOpenFail(n) ==
    /\ Alive /\ At("preprocess", n, "todo") /\ WorkerFree
    /\ IF n \in DOMAIN fs["preprocessed"]
       THEN MayFail /\ faults' = faults + 1
       ELSE UNCHANGED faults
    /\ fs' = [fs EXCEPT !["preprocessed"] = Del(@, TmpName(n))]
    /\ tpc' = SetPc("preprocess", n, "err")
    /\ UNCHANGED <<mainpc, run, stateFile, wstate, prevConverted, prevFinal, critical>>
    /\ UNCHANGED notPipe

\* what the loop reads: the file as opened, or, when another worker rewrote
\* the path in between, what that worker left there
ReadBy(n) ==
    {wstate[n]} \cup (IF n \in DOMAIN fs["preprocessed"]
                      THEN {fs["preprocessed"][n]} ELSE {})

\* for line in infile: ... outfile.write(line + '\n'); close both
PreWrite(n) ==
    /\ Alive /\ At("preprocess", n, "open")
    /\ \E c \in ReadBy(n) :
          fs' = IF TmpName(n) \in DOMAIN fs["preprocessed"]
                THEN Written("preprocessed", TmpName(n), Applied(c, "N"))
                ELSE fs
    /\ tpc' = SetPc("preprocess", n, "written")
    /\ UNCHANGED <<mainpc, run, stateFile, wstate, prevConverted, prevFinal, critical, faults>>
    /\ UNCHANGED notPipe

\* os.replace(tmp_filepath, filepath)
PreReplace(n) ==
    /\ Alive /\ At("preprocess", n, "written")
    /\ TmpName(n) \in DOMAIN fs["preprocessed"]
    /\ fs' = [fs EXCEPT !["preprocessed"] =
                 Del(Put(@, n, @[TmpName(n)]), TmpName(n))]
    /\ tpc' = SetPc("preprocess", n, "ok")
    /\ UNCHANGED <<mainpc, run, stateFile, wstate, prevConverted, prevFinal, critical, faults>>
    /\ UNCHANGED notPipe

\* an exception in the loop or in os.replace (always when tmp_filepath is no
\* longer there): if os.path.exists(tmp_filepath): os.remove(tmp_filepath)
PreFail(n) ==
    /\ Alive
    /\ At("preprocess", n, "open") \/ At("preprocess", n, "written")
    /\ IF At("preprocess", n, "written")
          /\ TmpName(n) \notin DOMAIN fs["preprocessed"]
       THEN UNCHANGED faults
       ELSE MayFail /\ faults' = faults + 1
    /\ fs' = [fs EXCEPT !["preprocessed"] = Del(@, TmpName(n))]
    /\ tpc' = SetPc("preprocess", n, "err")
    /\ UNCHANGED <<mainpc, run, stateFile, wstate, prevConverted, prevFinal, critical>>
    /\ UNCHANGED notPipe

\* preprocess_fasta_files returns; process_files_remove_hyphens lists and
\* submits
JoinPreprocess ==
    /\ mainpc = "preprocess"
    /\ Joined("preprocess")
    /\ mainpc' = "hyphens"
    /\ tpc' = Submit("hyphens", Listing(fs["preprocessed"], "fasta"))
    /\ UNCHANGED <<run, fs, stateFile, wstate, prevConverted, prevFinal, critical, faults>>
    /\ UNCHANGED notPipe

----------------------------------------------------------------------------
(* Stages 3, 5 and 6: remove_hyphens_single_file, eliminate_duplicates_in_ *)
(* file (through process_file_for_elimination) and standardize_            *)
(* dereplicated_headers_file: read input_dir/filename, write               *)
(* output_dir/filename                                                     *)

FileStages == {"hyphens", "dedup", "standardize"}

InDirOf(s) == CASE s = "hyphens" -> "preprocessed"
                [] s = "dedup" -> "final"
                [] s = "standardize" -> "dedup"
OutDirOf(s) == CASE s = "hyphens" -> "final"
                 [] s = "dedup" -> "dedup"
                 [] s = "standardize" -> "standardized"
OpOf(s) == CASE s = "hyphens" -> "H"
             [] s = "dedup" -> "D"
             [] s = "standardize" -> "S"

\* the input is read (dedup: wholly) and the output opened with 'w'
StageOpen(s, n) ==
    /\ Alive /\ At(s, n, "todo") /\ WorkerFree
    /\ fs' = Opened(OutDirOf(s), n)
    /\ tpc' = SetPc(s, n, "writing")
    /\ UNCHANGED <<mainpc, run, stateFile, wstate, prevConverted, prevFinal, critical, faults>>
    /\ UNCHANGED notPipe

\* opening or reading the input raises: logged, no output
StageOpenFail(s, n) ==
    /\ Alive /\ At(s, n, "todo") /\ WorkerFree
    /\ MayFail
    /\ faults' = faults + 1
    /\ tpc' = SetPc(s, n, "err")
    /\ UNCHANGED <<mainpc, run, fs, stateFile, wstate, prevConverted, prevFinal, critical>>
    /\ UNCHANGED notPipe

\* the output is written and closed
StageWrite(s, n) ==
    /\ Alive /\ At(s, n, "writing")
    /\ fs' = Written(OutDirOf(s), n, Applied(fs[InDirOf(s)][n], OpOf(s)))
    /\ tpc' = SetPc(s, n, "ok")
    /\ UNCHANGED <<mainpc, run, stateFile, wstate, prevConverted, prevFinal, critical, faults>>
    /\ UNCHANGED notPipe

\* a write raises: logged, the output stays as far as it was written
StageWriteFail(s, n) ==
    /\ Alive /\ At(s, n, "writing")
    /\ MayFail
    /\ faults' = faults + 1
    /\ tpc' = SetPc(s, n, "err")
    /\ UNCHANGED <<mainpc, run, fs, stateFile, wstate, prevConverted, prevFinal, critical>>
    /\ UNCHANGED notPipe

\* process_files_remove_hyphens returns
JoinHyphens ==
    /\ mainpc = "hyphens"
    /\ Joined("hyphens")
    /\ mainpc' = "report"
    /\ UNCHANGED <<run, fs, stateFile, tpc, wstate, prevConverted, prevFinal, critical, faults>>
    /\ UNCHANGED notPipe

\* (mutant) the reporter opens the analysed files for writing
ReportTruncates ==
    /\ mainpc = "report"
    /\ fs' = [fs EXCEPT !["final"] = [n \in DOMAIN @ |-> <<>>],
                        !["reports"] =
                 [r \in {Name("duplicate_full_headers_report", "xlsx"),
                         Name("duplicate_accession_ids_report", "xlsx")}
                    |-> <<"report">>]]
    /\ mainpc' = "dedup"
    /\ tpc' = Submit("dedup", Listing(fs["final"], "fasta"))
    /\ UNCHANGED <<run, stateFile, wstate, prevConverted, prevFinal, critical, faults>>
    /\ UNCHANGED notPipe

\* generate_duplicate_reports, in the main process; then
\* eliminate_duplicates_in_directory lists and submits
Report ==
    /\ mainpc = "report"
    /\ fs' = [fs EXCEPT !["reports"] =
                 [r \in {Name("duplicate_full_headers_report", "xlsx"),
                         Name("duplicate_accession_ids_report", "xlsx")}
                    |-> <<"report">>]]
    /\ mainpc' = "dedup"
    /\ tpc' = Submit("dedup", Listing(fs["final"], "fasta"))
    /\ UNCHANGED <<run, stateFile, wstate, prevConverted, prevFinal, critical, faults>>
    /\ UNCHANGED notPipe

\* df.to_excel raises: the exception leaves main()
ReportFail ==
    /\ mainpc = "report"
    /\ MayFail
    /\ faults' = faults + 1
    /\ mainpc' = "crashed"
    /\ critical' = <<"to_excel">>
    /\ UNCHANGED <<run, fs, stateFile, tpc, wstate, prevConverted, prevFinal>>
    /\ UNCHANGED notPipe

\* eliminate_duplicates_in_directory returns;
\* standardize_dereplicated_headers_in_directory lists and submits
JoinDedup ==
    /\ mainpc = "dedup"
    /\ Joined("dedup")
    /\ mainpc' = "standardize"
    /\ tpc' = Submit("standardize", Listing(fs["dedup"], "fasta"))
    /\ UNCHANGED <<run, fs, stateFile, wstate, prevConverted, prevFinal, critical, faults>>
    /\ UNCHANGED notPipe

\* "===== PIPELINE COMPLETE ====="
JoinStandardize ==
    /\ mainpc = "standardize"
    /\ Joined("standardize")
    /\ mainpc' = "done"
    /\ UNCHANGED <<run, fs, stateFile, tpc, wstate, prevConverted, prevFinal, critical, faults>>
    /\ UNCHANGED notPipe

----------------------------------------------------------------------------
(* Process kill and the next run *)

Running == mainpc \notin {"done", "crashed", "killed"}

\* the process (with its pool) is killed; the files stay as they are
Kill ==
    /\ Running
    /\ mainpc' = "killed"
    /\ UNCHANGED <<run, fs, stateFile, tpc, wstate, prevConverted, prevFinal, critical, faults>>
    /\ UNCHANGED notPipe

\* main() is started again on the same directory
Rerun ==
    /\ ~Running
    /\ run < MaxRuns
    /\ run' = run + 1
    /\ mainpc' = "clear_dirs"
    /\ tpc' = NoTasks
    /\ wstate' = Empty
    /\ faults' = 0
    /\ prevConverted' = ConvertedIn(stateFile)
    /\ prevFinal' = IF run = 1 /\ mainpc = "done" /\ faults = 0
                    THEN <<fs["standardized"]>> ELSE <<>>
    /\ critical' = <<>>
    /\ UNCHANGED <<fs, stateFile>>
    /\ UNCHANGED notPipe

----------------------------------------------------------------------------
(* Properties of the pipeline (Spec) *)

ConvTasks == DOMAIN tpc["convert"]
Persisted == LoadState(stateFile)
Finished(s) == \A n \in DOMAIN tpc[s] : tpc[s][n] \in {"ok", "err", "skipped"}
Started(s) == \E n \in DOMAIN tpc[s] : tpc[s][n] # "todo"

\* C2: when all conversion workers have finished, the persisted state holds
\* the conversion result of every file of the stage.
C2_StateHoldsEveryResult ==
    (mainpc \in {"convert", "copy"} /\ Finished("convert")) =>
        \A f \in ConvTasks :
            /\ Base(f) \in DOMAIN Persisted
            /\ Persisted[Base(f)].converted = (tpc["convert"][f] = "ok")

\* C3 as claimed: in a rerun, a file whose conversion was persisted as
\* successful is skipped and a file whose conversion was not is converted.
C3_RerunSkipsPersisted ==
    (run > 1 /\ mainpc = "copy") =>
        \A f \in ConvTasks :
            IF Base(f) \in prevConverted
            THEN tpc["convert"][f] = "skipped"
            ELSE tpc["convert"][f] \in {"ok", "err"}

\* C3 as amended: main() removes the state file before converting, so a
\* rerun skips no file: conversion is entered again for the files persisted
\* as converted and for the others alike.
C3_RerunConvertsAll ==
    (run > 1 /\ mainpc = "copy") =>
        \A f \in ConvTasks : tpc["convert"][f] \in {"ok", "err"}

\* a rerun after file A was persisted as converted and file B was not:
\* both are converted again
C3_Witness ==
    /\ run > 1 /\ mainpc = "copy"
    /\ \E a, b \in ConvTasks :
           /\ Base(a) \in prevConverted /\ Base(b) \notin prevConverted
           /\ tpc["convert"][a] = "ok" /\ tpc["convert"][b] = "ok"

C5_KillKeepsCompletedUpdates ==
    (mainpc = "killed" /\ stateFile.kind = "partial") =>
        \A f \in ConvTasks :
            tpc["convert"][f] \in {"ok", "err"} => Base(f) \in DOMAIN Persisted

\* the key under which a failure of stage s would be recorded
StageKey(s) == CASE s = "convert" -> "converted"
                 [] s = "preprocess" -> "filtered"
                 [] s = "hyphens" -> "filtered"
                 [] s = "dedup" -> "duplicates"
                 [] s = "standardize" -> "standardized"
FailureRecorded(s, n) ==
    /\ Base(n) \in DOMAIN Persisted
    /\ StageKey(s) \in DOMAIN Persisted[Base(n)].errors

\* C6: when a run finishes, the state file records a failure for exactly
\* the (file, stage) pairs that failed.
C6_FailuresRecorded ==
    mainpc = "done" =>
        \A s \in StageSet : \A n \in DOMAIN tpc[s] :
            (tpc[s][n] = "err") <=> FailureRecorded(s, n)

\* C7: when copying one file fails, every other converted file is still
\* carried through the later stages.
C7_ErrorIsolation ==
    \A n \in DOMAIN fs["converted"] :
        (mainpc = "crashed" /\ critical = <<"copy", n>>) =>
            \A m \in Listing(fs["converted"], "fasta") \ {n} :
                /\ m \in DOMAIN tpc["standardize"]
                /\ tpc["standardize"][m] \in {"ok", "err"}

\* the worker call of the stage before Stages[i] for file n succeeded
PreviousOk(i, n) ==
    IF i = 2
    THEN \E f \in ConvTasks : Base(f) = n /\ tpc["convert"][f] = "ok"
    ELSE n \in DOMAIN tpc[Stages[i - 1]] /\ tpc[Stages[i - 1]][n] = "ok"

\* C8: a stage is entered for a file only if the previous stage succeeded
\* for that file.
C8_StageGating ==
    \A i \in 2..Len(Stages) : \A n \in DOMAIN tpc[Stages[i]] :
        tpc[Stages[i]][n] # "todo" => PreviousOk(i, n)

\* C9: no worker call of a stage has started, and neither the copy loop nor
\* the duplicate report runs, before every worker call of the earlier stages
\* has finished; and no deduplication starts before the report is written.
C9_StageBarrier ==
    /\ \A i, j \in 1..Len(Stages) :
           (i < j /\ Started(Stages[j])) => Finished(Stages[i])
    /\ mainpc = "copy" => Finished("convert")
    /\ mainpc = "report" => Finished("hyphens") /\ ~Started("dedup")
    /\ Started("dedup") => fs["reports"] # Empty

\* two preprocessing workers are running, all conversions being over
C9_Witness ==
    /\ Cardinality(ConvTasks) = 2
    /\ Cardinality(Active("preprocess")) = 2
    /\ Finished("convert")

\* the paths a running worker call reads and writes
ReadsOf(s, n) ==
    CASE s = "convert" -> {<<"input", n>>}
      [] s = "preprocess" -> {<<"preprocessed", n>>}
      [] OTHER -> {<<InDirOf(s), n>>}
WritesOf(s, n) ==
    CASE s = "convert" -> {<<"converted", Base(n)>>}
      [] s = "preprocess" -> {<<"preprocessed", TmpName(n)>>,
                              <<"preprocessed", n>>}
      [] OTHER -> {<<OutDirOf(s), n>>}

\* C10: no path is written by one worker of a stage while another worker
\* of that stage reads or writes it.
C10_ExclusivePaths ==
    \A s \in StageSet : \A n, m \in Active(s) :
        n # m => WritesOf(s, n) \cap (ReadsOf(s, m) \cup WritesOf(s, m)) = {}

----------------------------------------------------------------------------
(* Strings are sequences of characters *)

Whitespace == {" ", "\t", "\n", "\r"}
LowerCase == <<"a", "b", "c", "d", "e", "f", "g", "h", "i", "j", "k", "l", "m",
               "n", "o", "p", "q", "r", "s", "t", "u", "v", "w", "x", "y", "z">>
UpperCase == <<"A", "B", "C", "D", "E", "F", "G", "H", "I", "J", "K", "L", "M",
               "N", "O", "P", "Q", "R", "S", "T", "U", "V", "W", "X", "Y", "Z">>

\* str.upper, one character
UpperChar(c) ==
    IF \E i \in DOMAIN LowerCase : LowerCase[i] = c
    THEN UpperCase[CHOOSE i \in DOMAIN LowerCase : LowerCase[i] = c]
    ELSE c
Upper(str) == [i \in DOMAIN str |-> UpperChar(str[i])]

StartsWith(str, c) == Len(str) > 0 /\ str[1] = c

RECURSIVE LStrip(_, _)
\* str.lstrip(chars)
LStrip(str, chars) ==
    IF Len(str) > 0 /\ str[1] \in chars THEN LStrip(Tail(str), chars) ELSE str

RECURSIVE RStrip(_, _)
RStrip(str, chars) ==
    IF Len(str) > 0 /\ str[Len(str)] \in chars
    THEN RStrip(SubSeq(str, 1, Len(str) - 1), chars) ELSE str

\* str.strip()
Strip(str) == RStrip(LStrip(str, Whitespace), Whitespace)

RECURSIVE Split(_, _)
\* str.split(sep), sep one character
Split(str, sep) ==
    IF \E i \in DOMAIN str : str[i] = sep
    THEN LET i == CHOOSE i \in DOMAIN str :
                     str[i] = sep /\ \A j \in 1..(i - 1) : str[j] # sep
         IN  <<SubSeq(str, 1, i - 1)>> \o Split(SubSeq(str, i + 1, Len(str)), sep)
    ELSE <<str>>

RECURSIVE Join(_)
\* "".join(parts)
Join(parts) == IF parts = <<>> THEN <<>> ELSE Head(parts) \o Join(Tail(parts))

\* str.replace(c, '')
Without(str, c) == SelectSeq(str, LAMBDA x : x # c)

----------------------------------------------------------------------------
(* filter_nucleotide_sequence and extract_accession_id *)

VALID_NUCLEOTIDES == {"A", "C", "G", "T", "N", "R", "Y", "S", "W", "K", "M", "B",
                      "D", "H", "V"}

\* (mutant) the sequence is upper-cased and nothing is dropped
UpperOnly(seq) == Upper(seq)

\* seq.upper(), then re.sub('[^ACGTNRYSWKMBDHV]', '', seq)
filter_nucleotide_sequence(seq) ==
    SelectSeq(Upper(seq), LAMBDA x : x \in VALID_NUCLEOTIDES)

\* None is <<"None">>, which is no header and no accession id of the model
None == <<"None">>

extract_accession_id(header) ==
    IF ~StartsWith(header, ">") THEN None
    ELSE LStrip(Split(header, ";")[1], {">"})

\* `if acc_id:` : neither None nor the empty string
Truthy(acc_id) == acc_id # None /\ acc_id # <<>>

----------------------------------------------------------------------------
(* eliminate_duplicates_in_file *)

\* filter_nucleotide_sequence("".join(current_seq).replace('-', ''))
CleanSeq(seqLines) == filter_nucleotide_sequence(Without(Join(seqLines), "-"))

\* (mutant) the stored record is replaced on equal length too
LongerOrEqual(seq_str, stored) == Len(seq_str) >= Len(stored)

\* len(seq_str) > len(sequences[acc_id][1])
Longer(seq_str, stored) == Len(seq_str) > Len(stored)

\* (mutant) a longer record replaces the stored sequence and leaves the stored
\* header
StoredKeepsHeader(seqs, ord, header, seqLines) ==
    LET seq_str == CleanSeq(seqLines)
        acc_id == extract_accession_id(header)
    IN  IF header = None \/ ~Truthy(acc_id)
        THEN [sequences |-> seqs, order |-> ord]
        ELSE IF acc_id \in DOMAIN seqs
        THEN IF Longer(seq_str, seqs[acc_id][2])
             THEN [sequences |-> Put(seqs, acc_id, <<seqs[acc_id][1], seq_str>>),
                   order |-> ord]
             ELSE [sequences |-> seqs, order |-> ord]
        ELSE [sequences |-> Put(seqs, acc_id, <<header, seq_str>>),
              order |-> Append(ord, acc_id)]

\* (mutant) the lines before the first header are stored as a record too
StoredHeaderless(seqs, ord, header, seqLines) ==
    [sequences |-> Put(seqs, header, <<header, CleanSeq(seqLines)>>),
     order |-> IF header \in DOMAIN seqs THEN ord ELSE Append(ord, header)]

\* (mutant) a replaced key moves to the end of the order list
StoredMovesKey(seqs, ord, header, seqLines) ==
    LET seq_str == CleanSeq(seqLines)
        acc_id == extract_accession_id(header)
    IN  IF header = None \/ ~Truthy(acc_id)
        THEN [sequences |-> seqs, order |-> ord]
        ELSE IF acc_id \in DOMAIN seqs /\ ~Longer(seq_str, seqs[acc_id][2])
        THEN [sequences |-> seqs, order |-> ord]
        ELSE [sequences |-> Put(seqs, acc_id, <<header, seq_str>>),
              order |-> Append(SelectSeq(ord, LAMBDA k : k # acc_id), acc_id)]

\* "Process previous sequence" / "Process final sequence": the dict and the
\* order list after the record (header, seqLines) has been processed
Stored(seqs, ord, header, seqLines) ==
    LET seq_str == CleanSeq(seqLines)
        acc_id == extract_accession_id(header)
    IN  IF header = None \/ ~Truthy(acc_id)
        THEN [sequences |-> seqs, order |-> ord]
        ELSE IF acc_id \in DOMAIN seqs
        THEN IF Longer(seq_str, seqs[acc_id][2])
             THEN [sequences |-> Put(seqs, acc_id, <<header, seq_str>>),
                   order |-> ord]
             ELSE [sequences |-> seqs, order |-> ord]
        ELSE [sequences |-> Put(seqs, acc_id, <<header, seq_str>>),
              order |-> Append(ord, acc_id)]

\* one iteration of `for line in f`
DedupLine ==
    /\ dpc = "read"
    /\ pos < Len(lines)
    /\ pos' = pos + 1
    /\ LET line == Strip(lines[pos + 1]) IN
       IF line = <<>>
       THEN UNCHANGED <<sequences, order, current_header, current_seq>>
       ELSE IF StartsWith(line, ">")
       THEN /\ sequences' = Stored(sequences, order, current_header,
                                   current_seq).sequences
            /\ order' = Stored(sequences, order, current_header,
                               current_seq).order
            /\ current_header' = line
            /\ current_seq' = <<>>
       ELSE /\ current_seq' = Append(current_seq, line)
            /\ UNCHANGED <<sequences, order, current_header>>
    /\ UNCHANGED <<lines, outFile, dpc>>
    /\ UNCHANGED notDedup

\* after the loop: "Process final sequence"
DedupFinal ==
    /\ dpc = "read"
    /\ pos = Len(lines)
    /\ sequences' = Stored(sequences, order, current_header, current_seq).sequences
    /\ order' = Stored(sequences, order, current_header, current_seq).order
    /\ dpc' = "write"
    /\ UNCHANGED <<lines, pos, current_header, current_seq, outFile>>
    /\ UNCHANGED notDedup

RECURSIVE Emitted(_, _)
\* for acc in order: out.write(f"{header}\n{seq}\n")
Emitted(seqs, ord) ==
    IF ord = <<>> THEN <<>>
    ELSE <<seqs[Head(ord)][1], seqs[Head(ord)][2]>> \o Emitted(seqs, Tail(ord))

DedupWrite ==
    /\ dpc = "write"
    /\ outFile' = Emitted(sequences, order)
    /\ dpc' = "done"
    /\ UNCHANGED <<lines, pos, sequences, order, current_header, current_seq>>
    /\ UNCHANGED notDedup

----------------------------------------------------------------------------
NoDedup ==
    /\ lines = <<>> /\ pos = 0 /\ sequences = Empty /\ order = <<>>
    /\ current_header = None /\ current_seq = <<>> /\ outFile = <<>>
    /\ dpc = "off"

NoHeader ==
    /\ infile = <<>> /\ outfile = <<>> /\ expected_fields = 0 /\ passes = 0

NoStore ==
    /\ memory = Empty /\ recent = Empty /\ calls = 0 /\ loaded = <<>>

NoReport ==
    /\ input_dir = Empty /\ analysis = Empty
    /\ duplicate_full_headers = <<>> /\ duplicate_accessions = <<>>
    /\ report_dir = Empty /\ rpc = "off"

Init ==
    /\ mainpc = "clear_dirs"
    /\ run = 1
    /\ \E files \in InputSets :
          fs = [d \in DirNames |->
                   IF d = "input" THEN [n \in files |-> Original(n)] ELSE Empty]
    /\ stateFile = NoStateFile
    /\ tpc = NoTasks
    /\ wstate = Empty
    /\ prevConverted = {}
    /\ prevFinal = <<>>
    /\ faults = 0
    /\ critical = <<>>
    /\ NoDedup
    /\ NoHeader
    /\ NoStore
    /\ NoReport

AllNames == UNION {DOMAIN tpc[s] : s \in StageSet}

\* the steps of one run of main() and its kill
RunNext ==
    \/ ClearDirs
    \/ ClearState
    \/ \E f \in AllNames : ConvLoad(f)
    \/ \E f \in AllNames : ConvOpenOut(f)
    \/ \E f \in AllNames : ConvWrite(f)
    \/ \E f \in AllNames : ConvWriteFail(f)
    \/ \E f \in AllNames : ConvSaveOpen(f)
    \/ \E f \in AllNames : ConvSaveFail(f)
    \/ \E f \in AllNames : ConvSaveDump(f)
    \/ JoinConvert
    \/ \E n \in ToCopy : CopyFile(n)
    \/ \E n \in ToCopy : CopyFail(n)
    \/ CopyDone
    \/ \E n \in AllNames : PreOpen(n)
    \/ \E n \in AllNames : PreOpenFail(n)
    \/ \E n \in AllNames : PreWrite(n)
    \/ \E n \in AllNames : PreReplace(n)
    \/ \E n \in AllNames : PreFail(n)
    \/ JoinPreprocess
    \/ \E s \in FileStages, n \in AllNames : StageOpen(s, n)
    \/ \E s \in FileStages, n \in AllNames : StageOpenFail(s, n)
    \/ \E s \in FileStages, n \in AllNames : StageWrite(s, n)
    \/ \E s \in FileStages, n \in AllNames : StageWriteFail(s, n)
    \/ JoinHyphens
    \/ Report
    \/ ReportFail
    \/ JoinDedup
    \/ JoinStandardize
    \/ Kill

Next == RunNext \/ Rerun

Spec == Init /\ [][Next]_vars

----------------------------------------------------------------------------
(* SpecDedup: eliminate_duplicates_in_file on one input file *)

MaxLines == 4

\* the lines an input file is made of
LineUniverse ==
    { <<">", "A", ";", "x">>,      \* key A
      <<">", "A", ";", "y">>,      \* key A, another header
      <<">", "B", ";", "x">>,      \* key B
      <<">", ";", "x">>,           \* empty first field
      <<"A", "C">>,
      <<"A", "C", "G", "\n">>,
      <<"a", "-", "x", "c", "-">>, \* cleans to AC
      <<" ", "\n">> }              \* blank after strip

NoPipe ==
    /\ mainpc = "off" /\ run = 1
    /\ fs = [d \in DirNames |-> Empty]
    /\ stateFile = NoStateFile /\ tpc = NoTasks /\ wstate = Empty
    /\ prevConverted = {} /\ prevFinal = <<>> /\ faults = 0 /\ critical = <<>>

InitDedup ==
    /\ NoPipe
    /\ NoHeader
    /\ NoStore
    /\ NoReport
    /\ lines \in UNION {[1..n -> LineUniverse] : n \in 0..MaxLines}
    /\ pos = 0
    /\ sequences = Empty
    /\ order = <<>>
    /\ current_header = None
    /\ current_seq = <<>>
    /\ outFile = <<>>
    /\ dpc = "read"

NextDedup ==
    \/ DedupLine
    \/ DedupFinal
    \/ DedupWrite

SpecDedup == InitDedup /\ [][NextDedup]_vars

----------------------------------------------------------------------------
(* standardize_dereplicated_headers_file *)

\* parts[:n]
Prefix(parts, n) == SubSeq(parts, 1, IF n < Len(parts) THEN n ELSE Len(parts))

RECURSIVE JoinSep(_, _)
\* sep.join(parts)
JoinSep(parts, sep) ==
    IF parts = <<>> THEN <<>>
    ELSE IF Len(parts) = 1 THEN parts[1]
    ELSE parts[1] \o <<sep>> \o JoinSep(Tail(parts), sep)

\* (mutant) the header keeps all its fields
StandardizedUncut(line, n) ==
    IF StartsWith(line, ">")
    THEN <<">">> \o Strip(Tail(line)) \o <<";", "\n">>
    ELSE line

\* the body of `for line in infile`: what is written for one line
StandardizedLine(line, n) ==
    IF StartsWith(line, ">")
    THEN LET header == Strip(Tail(line))
             fields == Prefix(Split(header, ";"), n)
         IN  <<">">> \o JoinSep(fields, ";") \o <<";", "\n">>
    ELSE line

\* the file written by one call
Standardized(file, n) == [i \in DOMAIN file |-> StandardizedLine(file[i], n)]

\* the call of main() on the deduplicated file, and a second call on the file
\* the first one wrote
Standardize ==
    /\ passes < MaxPasses
    /\ LET src == IF passes = 0 THEN infile ELSE outfile IN
          /\ infile' = src
          /\ outfile' = Standardized(src, expected_fields)
    /\ passes' = passes + 1
    /\ UNCHANGED expected_fields
    /\ UNCHANGED notHeader

----------------------------------------------------------------------------
(* SpecStd: standardize_dereplicated_headers_file on one file *)

\* the lines a file given to the standardization is made of
StdLineUniverse ==
    {
      \* one field
      <<">", "A", "\n">>,
      \* three fields
      <<">", "A", ";", "x", ";", "y", "\n">>,
      \* whitespace after the marker and at the end
      <<">", " ", "A", ";", "x", " ", "\n">>,
      \* ends with the separator
      <<">", "A", ";", "x", ";", "\n">>,
      \* nine fields
      <<">", "A", "C", "C", "2", ";", "F", "u", "n", "g", "i", ";", ".",
      ";", ".", ";", ".", ";", ".", ";", ".", ";", ".", ";", ".", "\n">>,
      \* quote-wrapped header
      <<"\"", ">", "A", "C", "C", "2", ";", "F", "u", "n", "g", "i", ";",
      ".", ";", ".", ";", ".", ";", ".", ";", ".", ";", ".", ";", ".",
      "\"", "\n">>,
      \* sequence line
      <<"A", "C", "G", "T", "\n">>,
      \* sequence line with whitespace
      <<" ", "A", "C", "-", "g", " ", "\n">>,
      \* last line without terminator
      <<">", "B", ";", "x">> }

\* main() passes 8; 2 is a small value that the short lines exceed
ExpectedFields == {2, 8}

\* the lines of a text file: every line but the last ends with its terminator
Files(universe) ==
    {f \in UNION {[1..n -> universe] : n \in 0..MaxFileLines} :
        \A i \in 1..(Len(f) - 1) : f[i][Len(f[i])] = "\n"}

InitStd ==
    /\ NoPipe
    /\ NoDedup
    /\ NoStore
    /\ NoReport
    /\ infile \in Files(StdLineUniverse)
    /\ outfile = <<>>
    /\ expected_fields \in ExpectedFields
    /\ passes = 0

NextStd == Standardize

SpecStd == InitStd /\ [][NextStd]_vars

----------------------------------------------------------------------------
(* preprocess_single_fasta *)

\* str.startswith(prefix)
HasPrefix(str, prefix) ==
    Len(str) >= Len(prefix) /\ SubSeq(str, 1, Len(prefix)) = prefix

\* str.strip(chars)
StripChars(str, chars) == RStrip(LStrip(str, chars), chars)

\* unicodedata.normalize('NFKD', c) of one character. A character outside
\* ASCII is written by its code point: U+00E9 (e with acute) decomposes into
\* e and the combining acute U+0301, U+FF02 (fullwidth quotation mark) into
\* the ASCII quotation mark, U+00F8 (o with stroke) has no decomposition.
NFKD(c) ==
    IF c = "U+00E9" THEN <<"e", "U+0301">>
    ELSE IF c = "U+FF02" THEN <<"\"">>
    ELSE <<c>>
\* unicodedata.combining(c) # 0
Combining(c) == c = "U+0301"

normalize_to_ascii(text) ==
    SelectSeq(Join([i \in DOMAIN text |-> NFKD(text[i])]),
              LAMBDA c : ~Combining(c))

clean_taxonomic_header(header, n) ==
    IF ~StartsWith(header, ">") THEN header
    ELSE JoinSep(Prefix(Split(header, ";"), n), ";")

\* the body of `for line in infile`: what is written for one line
PreprocessedLine(line, n) ==
    LET stripped == Strip(line)
    IN  IF HasPrefix(stripped, <<">">>) \/ HasPrefix(stripped, <<"\"", ">">>)
        THEN LET l1 == IF HasPrefix(stripped, <<"\"", ">">>)
                       THEN StripChars(stripped, {"\""}) ELSE stripped
                 l2 == Without(l1, "\"")
                 l3 == clean_taxonomic_header(l2, n)
             IN  normalize_to_ascii(l3) \o <<"\n">>
        ELSE stripped \o <<"\n">>

\* a call that ends with os.replace(tmp_filepath, filepath): the file it
\* leaves; a later call reads the file the earlier one left
Preprocess ==
    /\ passes < MaxPasses
    /\ LET src == IF passes = 0 THEN infile ELSE outfile IN
          /\ infile' = src
          /\ outfile' = [i \in DOMAIN src |->
                            PreprocessedLine(src[i], expected_fields)]
    /\ passes' = passes + 1
    /\ UNCHANGED expected_fields
    /\ UNCHANGED notHeader

----------------------------------------------------------------------------
(* SpecPre: preprocess_single_fasta on one file *)

\* the lines a converted file is made of
PreLineUniverse ==
    {
      \* two fields
      <<">", "A", ";", "x", "\n">>,
      \* quote-wrapped, nine fields
      <<"\"", ">", "A", "C", "C", "2", ";", "F", "u", "n", "g", "i", ";",
      ".", ";", ".", ";", ".", ";", ".", ";", ".", ";", ".", ";", ".",
      "\"", "\n">>,
      \* eleven fields
      <<">", "K", ";", "a", ";", "b", ";", "c", ";", "d", ";", "e", ";",
      "f", ";", "g", ";", "h", ";", "i", ";", "j", "\n">>,
      \* quotes inside
      <<">", "A", ";", "\"", "x", "\"", "\n">>,
      \* e with acute accent
      <<">", "A", ";", "U+00E9", "\n">>,
      \* fullwidth quotation mark
      <<">", "A", ";", "U+FF02", "x", "\n">>,
      \* sequence line with whitespace
      <<" ", "A", "C", "g", "t", " ", "\n">>,
      \* sequence line
      <<"A", "C", "-", "G", "T", "\n">>,
      \* empty line
      <<"\n">>,
      \* last line without terminator
      <<">", "B", ";", "x">> }

\* clean_taxonomic_header(header, expected_fields=9), called with its default
DefaultExpectedFields == 9

InitPre ==
    /\ NoPipe
    /\ NoDedup
    /\ NoStore
    /\ NoReport
    /\ infile \in Files(PreLineUniverse)
    /\ outfile = <<>>
    /\ expected_fields = DefaultExpectedFields
    /\ passes = 0

NextPre == Preprocess

SpecPre == InitPre /\ [][NextPre]_vars

----------------------------------------------------------------------------
(* SpecState: update_state calls of one process *)

\* the arguments the calls are made with
StoreFiles == {Name("a", "fasta"), Name("b", "fasta")}
StoreStages == {"converted", "duplicates", "filtered"}
ErrorMessages == {"", "Conversion error"}

\* update_state(state, filename, stage, success, error_msg); save_state
\* writes the file
Update(filename, stage, success, error_msg) ==
    /\ calls < MaxCalls
    /\ memory' = UpdateState(memory, filename, stage, success, error_msg)
    /\ recent' = Put(recent, <<filename, stage>>,
                     [success |-> success, error_msg |-> error_msg])
    /\ stateFile' = JsonStateFile(memory')
    /\ calls' = calls + 1
    /\ UNCHANGED <<faults, loaded>>
    /\ UNCHANGED notStore

\* the same call when save_state raises, in open(STATE_FILE, "w") (the file
\* stays as it was) or in json.dump (the file stays truncated): save_state
\* logs the exception and update_state returns
UpdateSaveFail(filename, stage, success, error_msg) ==
    /\ calls < MaxCalls
    /\ MayFail
    /\ faults' = faults + 1
    /\ memory' = UpdateState(memory, filename, stage, success, error_msg)
    /\ recent' = Put(recent, <<filename, stage>>,
                     [success |-> success, error_msg |-> error_msg])
    /\ stateFile' \in {stateFile, TruncatedStateFile}
    /\ calls' = calls + 1
    /\ UNCHANGED loaded
    /\ UNCHANGED notStore

\* load_state(): the file is there and read, or absent, or json.load raises
Load ==
    /\ loaded' = <<[file |-> stateFile, readable |-> TRUE,
                    state |-> LoadState(stateFile)]>>
    /\ UNCHANGED <<memory, recent, calls, stateFile, faults>>
    /\ UNCHANGED notStore

\* load_state() when open or the read raises on an existing file: logged,
\* {} returned
LoadUnreadable ==
    /\ stateFile.kind # "absent"
    /\ MayFail
    /\ faults' = faults + 1
    /\ loaded' = <<[file |-> stateFile, readable |-> FALSE, state |-> Empty]>>
    /\ UNCHANGED <<memory, recent, calls, stateFile>>
    /\ UNCHANGED notStore

InitState ==
    /\ NoPipe
    /\ NoDedup
    /\ NoHeader
    /\ NoStore
    /\ NoReport

NextState ==
    \/ \E f \in StoreFiles, s \in StoreStages, ok \in BOOLEAN,
          msg \in ErrorMessages : Update(f, s, ok, msg)
    \/ \E f \in StoreFiles, s \in StoreStages, ok \in BOOLEAN,
          msg \in ErrorMessages : UpdateSaveFail(f, s, ok, msg)
    \/ Load
    \/ LoadUnreadable

SpecState == InitState /\ [][NextState]_vars

----------------------------------------------------------------------------
(* SpecConv: the content written by convert_single_txt *)

\* bytes are written in hexadecimal; 41 is 'A', 0A and 0D are LF and CR,
\* C3 A9 is the UTF-8 encoding of U+00E9, FF is no part of any UTF-8 sequence
ByteUniverse == {"41", "0A", "0D", "C3", "A9", "FF"}
Ascii == {"41", "0A", "0D"}

RECURSIVE Decode(_)
\* bytes.decode('utf-8', errors='replace'): the characters, by code point
Decode(bytes) ==
    IF bytes = <<>> THEN <<>>
    ELSE IF bytes[1] \in Ascii THEN <<bytes[1]>> \o Decode(Tail(bytes))
    ELSE IF bytes[1] = "C3" /\ Len(bytes) > 1 /\ bytes[2] = "A9"
    THEN <<"U+00E9">> \o Decode(Tail(Tail(bytes)))
    ELSE <<"U+FFFD">> \o Decode(Tail(bytes))

\* (mutant) the file is read with newline=''
NewlinesKept(text) == text

RECURSIVE UniversalNewlines(_)
\* open(..., 'r') without newline argument: "\r\n" and "\r" are read as "\n"
UniversalNewlines(text) ==
    IF text = <<>> THEN <<>>
    ELSE IF text[1] = "0D"
    THEN <<"0A">> \o UniversalNewlines(
             IF Len(text) > 1 /\ text[2] = "0A" THEN Tail(Tail(text))
             ELSE Tail(text))
    ELSE <<text[1]>> \o UniversalNewlines(Tail(text))

RECURSIVE Encode(_)
\* str.encode('utf-8') as done by outfile.write
Encode(text) ==
    IF text = <<>> THEN <<>>
    ELSE (IF text[1] = "U+00E9" THEN <<"C3", "A9">>
          ELSE IF text[1] = "U+FFFD" THEN <<"EF", "BF", "BD">>
          ELSE <<text[1]>>) \o Encode(Tail(text))

\* content = infile.read(); outfile.write(content)
ConvertContent ==
    /\ passes = 0
    /\ outfile' = Encode(UniversalNewlines(Decode(infile)))
    /\ passes' = 1
    /\ UNCHANGED <<infile, expected_fields>>
    /\ UNCHANGED notHeader

InitConv ==
    /\ NoPipe
    /\ NoDedup
    /\ NoStore
    /\ NoReport
    /\ infile \in UNION {[1..n -> ByteUniverse] : n \in 0..MaxBytes}
    /\ outfile = <<>>
    /\ expected_fields = 0
    /\ passes = 0

NextConv == ConvertContent

SpecConv == InitConv /\ [][NextConv]_vars

----------------------------------------------------------------------------
(* The records of a file, read off its lines *)

IsHeaderLine(ls, i) == StartsWith(Strip(ls[i]), ">")
HeaderPositions(ls) == {i \in DOMAIN ls : IsHeaderLine(ls, i)}
\* the line after the last body line of the record whose header is line i
EndOfRecord(ls, i) ==
    IF \E j \in HeaderPositions(ls) : j > i
    THEN CHOOSE j \in HeaderPositions(ls) :
             j > i /\ \A k \in HeaderPositions(ls) : k > i => j <= k
    ELSE Len(ls) + 1
CleanedBody(ls, i) ==
    CleanSeq([k \in 1..(EndOfRecord(ls, i) - i - 1) |-> Strip(ls[i + k])])
\* the deduplication key of a header: its first ';'-delimited field after
\* the '>'
FirstField(header) == Split(Tail(header), ";")[1]
KeyAt(ls, i) == FirstField(Strip(ls[i]))

OutCount == Len(outFile) \div 2
OutHeader(a) == outFile[2 * a - 1]
OutSeq(a) == outFile[2 * a]

\* record i is the first of the longest records of its key
FirstLongest(ls, i) ==
    \A j \in HeaderPositions(ls) :
        KeyAt(ls, j) = KeyAt(ls, i) =>
            /\ Len(CleanedBody(ls, j)) <= Len(CleanedBody(ls, i))
            /\ j < i => Len(CleanedBody(ls, j)) < Len(CleanedBody(ls, i))

\* C1: the deduplicated output holds at most one record per key, and the
\* record it holds for a key is the first, in file order, of the records of
\* that key whose cleaned sequence is longest.
C1_LongestFirstKept ==
    dpc = "done" =>
        /\ \A a, b \in 1..OutCount :
               a # b => FirstField(OutHeader(a)) # FirstField(OutHeader(b))
        /\ \A a \in 1..OutCount :
               \E i \in HeaderPositions(lines) :
                   /\ Strip(lines[i]) = OutHeader(a)
                   /\ CleanedBody(lines, i) = OutSeq(a)
                   /\ FirstLongest(lines, i)

\* a later record of the same key, with another header, was longer and
\* replaced the stored one
C1_Witness ==
    /\ dpc = "done"
    /\ OutCount = 1
    /\ \E i, j \in HeaderPositions(lines) :
           /\ i < j
           /\ KeyAt(lines, i) = KeyAt(lines, j)
           /\ Strip(lines[i]) # Strip(lines[j])
           /\ 0 < Len(CleanedBody(lines, i))
           /\ Len(CleanedBody(lines, i)) < Len(CleanedBody(lines, j))
           /\ OutHeader(1) = Strip(lines[j])

----------------------------------------------------------------------------
\* the raw body of the record whose header is line i, as it stands in the file
RawBody(ls, i) == Join([k \in 1..(EndOfRecord(ls, i) - i - 1) |-> ls[i + k]])
Chars(str) == {str[i] : i \in DOMAIN str}

\* C12: every sequence written by the deduplication consists only of the
\* characters A C G T N R Y S W K M B D H V: no '-', no lower-case letter and
\* no other character of the input body is left.
C12_CleanedAlphabet ==
    dpc = "done" =>
        \A a \in 1..OutCount :
            Chars(OutSeq(a)) \subseteq {"A", "C", "G", "T", "N", "R", "Y", "S",
                                       "W", "K", "M", "B", "D", "H", "V"}

\* a record whose body held a gap, lower-case letters and a letter outside
\* the alphabet was written with a non-empty sequence
C12_Witness ==
    /\ dpc = "done"
    /\ \E a \in 1..OutCount : \E i \in HeaderPositions(lines) :
           /\ Strip(lines[i]) = OutHeader(a)
           /\ {"-", "a", "x"} \subseteq Chars(RawBody(lines, i))
           /\ OutSeq(a) # <<>>

\* the first header line of the file that carries the key
FirstSeen(ls, key) ==
    CHOOSE i \in HeaderPositions(ls) :
        /\ KeyAt(ls, i) = key
        /\ \A j \in HeaderPositions(ls) : KeyAt(ls, j) = key => i <= j

\* C16: the records are written in the order in which their keys were first
\* seen in the input file, whichever record of a key is the one kept.
C16_FirstSeenOrder ==
    dpc = "done" =>
        \A a, b \in 1..OutCount :
            a < b => FirstSeen(lines, FirstField(OutHeader(a)))
                         < FirstSeen(lines, FirstField(OutHeader(b)))

\* the record of the first key was replaced by a longer one that comes after
\* the first record of the second key, and is still written first
C16_Witness ==
    /\ dpc = "done"
    /\ OutCount = 2
    /\ \E i, j, k \in HeaderPositions(lines) :
           /\ i < j /\ j < k
           /\ KeyAt(lines, i) = KeyAt(lines, k)
           /\ KeyAt(lines, j) # KeyAt(lines, i)
           /\ Strip(lines[i]) # Strip(lines[k])
           /\ OutHeader(1) = Strip(lines[k])
           /\ OutHeader(2) = Strip(lines[j])

----------------------------------------------------------------------------
(* The headers of a standardized file *)

\* a line without its terminator
Chomp(line) ==
    IF Len(line) > 0 /\ line[Len(line)] = "\n"
    THEN SubSeq(line, 1, Len(line) - 1) ELSE line
\* the fields of a written header: split on ';', the single empty field
\* after the terminal separator left out
FieldsOf(line) ==
    LET parts == Split(Tail(Chomp(line)), ";")
    IN  IF parts[Len(parts)] = <<>> THEN SubSeq(parts, 1, Len(parts) - 1)
        ELSE parts

\* C13: every header written by the final standardization has exactly
\* expected_fields fields, whatever the number of fields of the input header.
C13_FixedFieldCount ==
    passes >= 1 =>
        \A i \in DOMAIN outfile :
            StartsWith(outfile[i], ">") =>
                Len(FieldsOf(outfile[i])) = expected_fields

\* C14: applying the standardization to its own output writes the same file
\* again.
C14_Idempotent ==
    [][passes >= 1 /\ passes' = passes + 1 => outfile' = outfile]_vars

\* the header text of a header line as the statement reads it: the line
\* without terminator, wrapping quotes and marker
HeaderText(line) ==
    LET l == Chomp(line)
        unquoted == IF StartsWith(l, "\"")
                    THEN RStrip(LStrip(l, {"\""}), {"\""}) ELSE l
    IN  Tail(unquoted)
IsHeader(line) ==
    \/ StartsWith(line, ">")
    \/ Len(line) > 1 /\ line[1] = "\"" /\ line[2] = ">"

\* C15 as stated: each header line, quote-wrapped or not, is written as '>',
\* the first expected_fields elements of its header text joined by ';', and
\* one ';'; every other line is written unchanged.
C15_ResultAsStated ==
    passes = 1 =>
        \A i \in DOMAIN infile :
            IF IsHeader(infile[i])
            THEN Chomp(outfile[i]) =
                     <<">">> \o JoinSep(Prefix(Split(HeaderText(infile[i]), ";"),
                                               expected_fields), ";")
                             \o <<";">>
            ELSE outfile[i] = infile[i]

\* C15: a line that starts with '>' is written as '>', the first
\* expected_fields fields (all if there are fewer) of the rest of the line
\* with the surrounding whitespace removed, each followed by ';', and a line
\* terminator; every other line, a quote-wrapped header too, is written
\* unchanged.
C15_StandardizedResult ==
    passes = 1 =>
        \A i \in DOMAIN infile :
            IF StartsWith(infile[i], ">")
            THEN LET out == outfile[i]
                     fields == Split(Strip(Tail(infile[i])), ";")
                     k == IF Len(fields) < expected_fields THEN Len(fields)
                          ELSE expected_fields
                 IN  /\ Len(out) >= 3
                     /\ out[1] = ">"
                     /\ SubSeq(out, Len(out) - 1, Len(out)) = <<";", "\n">>
                     /\ Split(SubSeq(out, 2, Len(out) - 2), ";")
                            = SubSeq(fields, 1, k)
            ELSE outfile[i] = infile[i]

Acc2Header ==
    <<">", "A", "C", "C", "2", ";", "F", "u", "n", "g", "i", ";", ".", ";",
    ".", ";", ".", ";", ".", ";", ".", ";", ".", ";", ".", "\n">>
Acc2Standardized ==
    <<">", "A", "C", "C", "2", ";", "F", "u", "n", "g", "i", ";", ".", ";",
    ".", ";", ".", ";", ".", ";", ".", ";", ".", ";", "\n">>

\* the nine-field header was cut to eight fields and a sequence line with
\* whitespace, a gap and a lower-case letter was copied
C15_Witness ==
    /\ passes = 1
    /\ expected_fields = 8
    /\ \E i, j \in DOMAIN infile :
           /\ infile[i] = Acc2Header
           /\ outfile[i] = Acc2Standardized
           /\ ~IsHeader(infile[j])
           /\ "-" \in Chars(infile[j])
           /\ outfile[j] = infile[j]

----------------------------------------------------------------------------
\* C17: after preprocess_single_fasta, every line that was a header line
\* starts with '>', holds no '"' and consists of the first expected_fields
\* fields of the input header (its quotes left out); every other line is
\* written unchanged.
C17_NormalizedHeaders ==
    passes = 1 =>
        \A i \in DOMAIN infile :
            IF IsHeader(infile[i])
            THEN /\ StartsWith(outfile[i], ">")
                 /\ "\"" \notin Chars(outfile[i])
                 /\ Split(Chomp(outfile[i]), ";") =
                        Prefix(Split(Without(Chomp(infile[i]), "\""), ";"),
                               expected_fields)
            ELSE outfile[i] = infile[i]

----------------------------------------------------------------------------
\* C20: after any sequence of update_state calls the flag stored for a
\* (filename, stage) is the success value of its most recent update, an error
\* is recorded for the stage exactly when that update was a failure, and the
\* state file holds the whole in-memory mapping.
C20_UpdateSemantics ==
    /\ \A k \in DOMAIN recent :
           /\ k[1] \in DOMAIN memory
           /\ memory[k[1]][k[2]] = recent[k].success
           /\ k[2] \in DOMAIN memory[k[1]].errors <=> ~recent[k].success
    /\ calls >= 1 => stateFile.kind = "json" /\ stateFile.map = memory

----------------------------------------------------------------------------
(* Properties of the pipeline (Spec), continued *)

\* the worker call of preprocess_single_fasta on n ends in its except branch
PreRaises(n) == ~At("preprocess", n, "err") /\ At("preprocess", n, "err")'

\* the call started on an existing file, and what that file held
HadOriginal(n) ==
    At("preprocess", n, "todo") => n \in DOMAIN fs["preprocessed"]
OriginalOf(n) ==
    IF At("preprocess", n, "todo") THEN fs["preprocessed"][n] ELSE wstate[n]

\* C18: when preprocess_single_fasta ends with an exception, the file it was
\* called on still has the content it had when the call started and the
\* temporary file does not exist.
C18_AtomicNormalization ==
    [][\A n \in DOMAIN tpc["preprocess"] :
          PreRaises(n) /\ HadOriginal(n) =>
              /\ n \in DOMAIN fs'["preprocessed"]
              /\ fs'["preprocessed"][n] = OriginalOf(n)
              /\ TmpName(n) \notin DOMAIN fs'["preprocessed"]]_vars

\* the final file of input file n when every stage worked on it alone
FinalContent(n) ==
    Applied(Applied(Applied(Applied(Original(n), "N"), "H"), "D"), "S")
\* the preprocessing of another file uses the name of n's file as its
\* temporary file
Clobbered(files, n) ==
    \E m \in files : m # n /\ TmpName(Base(m)) = Base(n)
\* the final directory of the run whose workers run one after the other
OneAtATime(files) ==
    LET kept == {n \in files : ~Clobbered(files, n)}
    IN  [b \in {Base(n) : n \in kept} |->
            FinalContent(CHOOSE n \in kept : Base(n) = b)]

\* C11: the final output files of a run without I/O errors depend on the
\* input files only: under every interleaving of the workers they are the
\* files that the run yields whose workers run one after the other.
C11_ScheduleIndependent ==
    mainpc = "done" /\ faults = 0 =>
        fs["standardized"] = OneAtATime(DOMAIN fs["input"])

\* C19: a second run of the whole pipeline, right after a first complete run
\* on the same input files, ends with the same final output files as the
\* first (both runs without I/O errors).
C19_PipelineIdempotent ==
    mainpc = "done" /\ faults = 0 /\ prevFinal # <<>> =>
        fs["standardized"] = prevFinal[1]

----------------------------------------------------------------------------
\* C21: load_state returns the persisted mapping when the state file exists
\* and can be read, and the empty mapping when the file is absent, cannot be
\* read or does not hold a complete JSON document; it always returns.
C21_LoadState ==
    \A i \in DOMAIN loaded :
        loaded[i].state =
            IF loaded[i].file.kind = "json" /\ loaded[i].readable
            THEN loaded[i].file.map ELSE Empty

\* a load found the file truncated by a failed save while the dict in memory
\* has entries, and returned the empty mapping; and the file it would find
\* now is the one a later save wrote
C21_Witness ==
    /\ loaded # <<>>
    /\ loaded[1].file.kind = "partial"
    /\ loaded[1].state = Empty
    /\ stateFile.kind = "json"
    /\ stateFile.map # Empty

----------------------------------------------------------------------------
\* C22: when the conversion stage has finished, every file whose conversion
\* failed is recorded in the state file as not converted with a non-empty
\* error message, and every other file of the batch was converted; in a later
\* run the conversion stage converts the files not marked successful again.
C22_ConversionFailureRecorded ==
    /\ (mainpc = "copy" /\ Finished("convert")) =>
           \A f \in ConvTasks :
               IF tpc["convert"][f] = "err"
               THEN /\ Base(f) \in DOMAIN Persisted
                    /\ ~Persisted[Base(f)].converted
                    /\ "converted" \in DOMAIN Persisted[Base(f)].errors
                    /\ Persisted[Base(f)].errors["converted"] # ""
               ELSE /\ tpc["convert"][f] = "ok"
                    /\ Base(f) \in DOMAIN fs["converted"]
                    /\ fs["converted"][Base(f)] = fs["input"][f]
    /\ (run > 1 /\ mainpc = "copy") =>
           \A f \in ConvTasks :
               Base(f) \notin prevConverted => tpc["convert"][f] \in {"ok", "err"}

----------------------------------------------------------------------------
(* The bytes of a converted file *)

RECURSIVE ValidUtf8(_)
\* the bytes are a sequence of complete UTF-8 encodings
ValidUtf8(bytes) ==
    \/ bytes = <<>>
    \/ bytes[1] \in {"41", "0A", "0D"} /\ ValidUtf8(Tail(bytes))
    \/ /\ Len(bytes) >= 2 /\ bytes[1] = "C3" /\ bytes[2] = "A9"
       /\ ValidUtf8(SubSeq(bytes, 3, Len(bytes)))
\* number of bytes of the file that belong to no complete encoding
RECURSIVE Undecodable(_)
Undecodable(bytes) ==
    IF bytes = <<>> THEN 0
    ELSE IF Len(bytes) >= 2 /\ bytes[1] = "C3" /\ bytes[2] = "A9"
    THEN Undecodable(SubSeq(bytes, 3, Len(bytes)))
    ELSE (IF bytes[1] \in {"41", "0A", "0D"} THEN 0 ELSE 1)
             + Undecodable(Tail(bytes))
Count(bytes, b) == Cardinality({i \in DOMAIN bytes : bytes[i] = b})

----------------------------------------------------------------------------
\* C24: for a file without header lines the deduplication ends normally and
\* writes an empty file, from which the final standardization writes an empty
\* file.
C24_EmptyInput ==
    dpc = "done" /\ HeaderPositions(lines) = {} =>
        /\ outFile = <<>>
        /\ \A n \in ExpectedFields : Standardized(outFile, n) = <<>>

\* a file of sequence lines only was deduplicated
C24_Witness ==
    /\ dpc = "done"
    /\ Len(lines) >= 2
    /\ HeaderPositions(lines) = {}
    /\ \E i \in DOMAIN lines : Strip(lines[i]) # <<>>
    /\ outFile = <<>>

----------------------------------------------------------------------------
\* C25: the step of generate_duplicate_reports leaves the state file and every
\* directory but the report directory as they were, and adds to the report
\* directory nothing but the two report files.
ReportNames ==
    {Name("duplicate_full_headers_report", "xlsx"),
     Name("duplicate_accession_ids_report", "xlsx")}
C25_ReportFrame ==
    [][mainpc = "report" =>
          /\ stateFile' = stateFile
          /\ \A d \in DirNames \ {"reports"} : fs'[d] = fs[d]
          /\ DOMAIN fs'["reports"] \subseteq DOMAIN fs["reports"] \cup ReportNames]_vars
C25_Witness ==
    /\ mainpc = "dedup"
    /\ DOMAIN fs["reports"] = ReportNames
    /\ fs["final"] # Empty
    /\ stateFile.kind = "json"

----------------------------------------------------------------------------
(* SpecReport: generate_duplicate_reports on one input directory *)

\* the lines of the analysed files
ReportLineUniverse ==
    { <<">", "A", ";", "x">>,
      <<">", "A", ";", "y", " ">>,
      <<">", ";", "x">>,
      <<"A", "C">> }

\* the files the input directory may hold
ReportInputs == {Name("a", "fasta"), Name("b", "fasta"), Name("notes", "txt")}

\* what a file that is not a .fasta file holds
OtherFile == << <<">", "A", ";", "x">>, <<">", "A", ";", "x">> >>

\* the name of a file as text
FileText(n) == n.stem \o "." \o n.ext

Digits == <<"0", "1", "2", "3", "4", "5", "6", "7", "8", "9">>
RECURSIVE Str(_)
\* str(n), n a natural number
Str(n) ==
    IF n < 10 THEN <<Digits[n + 1]>>
    ELSE Str(n \div 10) \o <<Digits[(n % 10) + 1]>>

RECURSIVE JoinWith(_, _)
\* sep.join(parts), sep a string
JoinWith(parts, sep) ==
    IF parts = <<>> THEN <<>>
    ELSE IF Len(parts) = 1 THEN parts[1]
    ELSE parts[1] \o sep \o JoinWith(Tail(parts), sep)

\* defaultdict(lambda: {'count': 0, ...}): the keys in order of insertion and
\* what each key holds
NoCounts == [keys |-> <<>>, info |-> Empty]

\* d[k]['count'] += 1; d[k][...].append(item)
Counted(d, k, item) ==
    IF k \in DOMAIN d.info
    THEN [d EXCEPT !.info[k] = [count |-> @.count + 1,
                                items |-> Append(@.items, item)]]
    ELSE [keys |-> Append(d.keys, k),
          info |-> Put(d.info, k, [count |-> 1, items |-> <<item>>])]

\* acc_id = extract_accession_id(header); if acc_id: count it
AccessionCounted(counts, header) ==
    IF Truthy(extract_accession_id(header))
    THEN Counted(counts, extract_accession_id(header), header)
    ELSE counts

RECURSIVE Tally(_, _, _)
\* the loop over the lines from line i on: header_counts and accession_counts
Tally(ls, i, t) ==
    IF i > Len(ls) THEN t
    ELSE LET line == Strip(ls[i])
         IN  IF StartsWith(line, ">")
             THEN Tally(ls, i + 1,
                        [header_counts |-> Counted(t.header_counts, line, i),
                         accession_counts |-> AccessionCounted(t.accession_counts, line)])
             ELSE Tally(ls, i + 1, t)

RECURSIVE StrAll(_)
\* map(str, lines)
StrAll(ns) == IF ns = <<>> THEN <<>> ELSE <<Str(Head(ns))>> \o StrAll(Tail(ns))

RECURSIVE HeaderRows(_, _, _)
\* for header, info in header_counts.items(): if info['count'] > 1: append
HeaderRows(filename, d, i) ==
    IF i > Len(d.keys) THEN <<>>
    ELSE LET info == d.info[d.keys[i]]
         IN  (IF info.count > 1
              THEN << <<FileText(filename), d.keys[i], info.count,
                        JoinWith(StrAll(info.items), <<",", " ">>)>> >>
              ELSE <<>>) \o HeaderRows(filename, d, i + 1)

RECURSIVE AccessionRows(_, _, _)
\* for acc_id, info in accession_counts.items(): if info['count'] > 1: append
AccessionRows(filename, d, i) ==
    IF i > Len(d.keys) THEN <<>>
    ELSE LET info == d.info[d.keys[i]]
         IN  (IF info.count > 1
              THEN << <<FileText(filename), d.keys[i], info.count,
                        JoinWith(info.items, <<" ", "|", " ">>)>> >>
              ELSE <<>>) \o AccessionRows(filename, d, i + 1)

\* [['No duplicates found', '', '', '']]
Placeholder == << <<"No duplicates found", "", "", "">> >>

headers_report_path == Name("duplicate_full_headers_report", "xlsx")
accessions_report_path == Name("duplicate_accession_ids_report", "xlsx")

\* the next file of os.listdir(input_dir) is not a .fasta file
SkipFile(filename) ==
    /\ rpc = "analyse"
    /\ filename \in DOMAIN analysis /\ analysis[filename] = "todo"
    /\ ~EndsWith(filename, "fasta")
    /\ analysis' = [analysis EXCEPT ![filename] = "skipped"]
    /\ UNCHANGED <<input_dir, duplicate_full_headers, duplicate_accessions,
                   report_dir, rpc>>
    /\ UNCHANGED notReport

\* the next file is read and its rows are appended
AnalyseFile(filename) ==
    /\ rpc = "analyse"
    /\ filename \in DOMAIN analysis /\ analysis[filename] = "todo"
    /\ EndsWith(filename, "fasta")
    /\ LET t == Tally(input_dir[filename], 1,
                      [header_counts |-> NoCounts, accession_counts |-> NoCounts])
       IN  /\ duplicate_full_headers' =
                 duplicate_full_headers \o HeaderRows(filename, t.header_counts, 1)
           /\ duplicate_accessions' =
                 duplicate_accessions \o AccessionRows(filename, t.accession_counts, 1)
    /\ analysis' = [analysis EXCEPT ![filename] = "ok"]
    /\ UNCHANGED <<input_dir, report_dir, rpc>>
    /\ UNCHANGED notReport

\* open or the iteration over the file raises: the error is logged and the
\* loop goes on with the next file
AnalyseFail(filename) ==
    /\ rpc = "analyse"
    /\ filename \in DOMAIN analysis /\ analysis[filename] = "todo"
    /\ EndsWith(filename, "fasta")
    /\ Cardinality({f \in DOMAIN analysis : analysis[f] = "err"}) < MaxFaults
    /\ analysis' = [analysis EXCEPT ![filename] = "err"]
    /\ UNCHANGED <<input_dir, duplicate_full_headers, duplicate_accessions,
                   report_dir, rpc>>
    /\ UNCHANGED notReport

\* the loop over os.listdir(input_dir) ends
AnalysisDone ==
    /\ rpc = "analyse"
    /\ \A f \in DOMAIN analysis : analysis[f] # "todo"
    /\ rpc' = "headers_report"
    /\ UNCHANGED <<input_dir, analysis, duplicate_full_headers, duplicate_accessions,
                   report_dir>>
    /\ UNCHANGED notReport

\* df_full.to_excel(headers_report_path)
WriteHeadersReport ==
    /\ rpc = "headers_report"
    /\ report_dir' = Put(report_dir, headers_report_path,
                         IF duplicate_full_headers # <<>>
                         THEN duplicate_full_headers ELSE Placeholder)
    /\ rpc' = "accessions_report"
    /\ UNCHANGED <<input_dir, analysis, duplicate_full_headers, duplicate_accessions>>
    /\ UNCHANGED notReport

\* df_acc.to_excel(accessions_report_path)
WriteAccessionsReport ==
    /\ rpc = "accessions_report"
    /\ report_dir' = Put(report_dir, accessions_report_path,
                         IF duplicate_accessions # <<>>
                         THEN duplicate_accessions ELSE Placeholder)
    /\ rpc' = "done"
    /\ UNCHANGED <<input_dir, analysis, duplicate_full_headers, duplicate_accessions>>
    /\ UNCHANGED notReport

\* to_excel raises: the exception leaves generate_duplicate_reports
ToExcelFail ==
    /\ rpc \in {"headers_report", "accessions_report"}
    /\ \A f \in DOMAIN analysis : analysis[f] # "err"
    /\ rpc' = "raised"
    /\ UNCHANGED <<input_dir, analysis, duplicate_full_headers, duplicate_accessions,
                   report_dir>>
    /\ UNCHANGED notReport

InitReport ==
    /\ NoPipe
    /\ NoDedup
    /\ NoHeader
    /\ NoStore
    /\ \E files \in SUBSET ReportInputs :
          /\ input_dir \in [files -> UNION {[1..n -> ReportLineUniverse] :
                                               n \in 0..MaxFileLines}]
          /\ \A f \in files : ~EndsWith(f, "fasta") => input_dir[f] = OtherFile
          /\ analysis = [f \in files |-> "todo"]
    /\ duplicate_full_headers = <<>>
    /\ duplicate_accessions = <<>>
    /\ report_dir = Empty
    /\ rpc = "analyse"

NextReport ==
    \/ \E f \in ReportInputs : SkipFile(f)
    \/ \E f \in ReportInputs : AnalyseFile(f)
    \/ \E f \in ReportInputs : AnalyseFail(f)
    \/ AnalysisDone
    \/ WriteHeadersReport
    \/ WriteAccessionsReport
    \/ ToExcelFail

SpecReport == InitReport /\ [][NextReport]_vars

----------------------------------------------------------------------------
(* The occurrences the reports are about *)

FastaFiles == {f \in DOMAIN input_dir : EndsWith(f, "fasta")}
\* the header lines of file f, stripped
HeaderLines(f) == {i \in DOMAIN input_dir[f] : StartsWith(Strip(input_dir[f][i]), ">")}
HeadersOf(f) == {Strip(input_dir[f][i]) : i \in HeaderLines(f)}
\* the first field of a header without the marker
KeyOf(header) == LStrip(Split(header, ";")[1], {">"})
KeysOf(f) == {KeyOf(h) : h \in HeadersOf(f)}
HeaderOccurrences(f, h) == {i \in HeaderLines(f) : Strip(input_dir[f][i]) = h}
KeyOccurrences(f, k) == {i \in HeaderLines(f) : KeyOf(Strip(input_dir[f][i])) = k}

RECURSIVE Ascending(_)
\* the numbers of a set in ascending order
Ascending(S) ==
    IF S = {} THEN <<>>
    ELSE LET m == CHOOSE m \in S : \A x \in S : m <= x
         IN  <<m>> \o Ascending(S \ {m})

RECURSIVE HeadersAt(_, _)
\* the stripped headers of file f at the line numbers ns
HeadersAt(f, ns) ==
    IF ns = <<>> THEN <<>>
    ELSE <<Strip(input_dir[f][Head(ns)])>> \o HeadersAt(f, Tail(ns))

IsPlaceholder(report) == Len(report) = 1 /\ report[1][1] = "No duplicates found"
\* the rows of a report about entry e of file f
RowsAbout(report, f, e) ==
    {j \in DOMAIN report : report[j][1] = FileText(f) /\ report[j][2] = e}

\* C26: when every .fasta file could be read, each report holds one row for
\* each header (accession key) that occurs more than once in a file, with the
\* number of its occurrences and their line numbers (headers), no row for any
\* other, and the placeholder row alone exactly when no file has such a
\* duplicate.
C26_ReportContent ==
    rpc = "done" /\ (\A f \in DOMAIN analysis : analysis[f] # "err") =>
        LET hr == report_dir[headers_report_path]
            ar == report_dir[accessions_report_path]
        IN  /\ \A f \in FastaFiles : \A h \in HeadersOf(f) :
                  LET occ == HeaderOccurrences(f, h)
                      rows == RowsAbout(hr, f, h)
                  IN  /\ Cardinality(rows) = (IF Cardinality(occ) > 1 THEN 1 ELSE 0)
                      /\ \A j \in rows :
                            /\ hr[j][3] = Cardinality(occ)
                            /\ hr[j][4] = JoinWith(StrAll(Ascending(occ)), <<",", " ">>)
            /\ \A f \in FastaFiles : \A k \in KeysOf(f) :
                  LET occ == KeyOccurrences(f, k)
                      rows == RowsAbout(ar, f, k)
                  IN  /\ Cardinality(rows) = (IF Cardinality(occ) > 1 THEN 1 ELSE 0)
                      /\ \A j \in rows :
                            /\ ar[j][3] = Cardinality(occ)
                            /\ ar[j][4] = JoinWith(HeadersAt(f, Ascending(occ)),
                                                   <<" ", "|", " ">>)
            /\ IsPlaceholder(hr) <=>
                  \A f \in FastaFiles : \A h \in HeadersOf(f) :
                      Cardinality(HeaderOccurrences(f, h)) <= 1
            /\ IsPlaceholder(ar) <=>
                  \A f \in FastaFiles : \A k \in KeysOf(f) :
                      Cardinality(KeyOccurrences(f, k)) <= 1

----------------------------------------------------------------------------
(* FairSpec: one run of main() when every step of the program that can be *)
(* taken is eventually taken (the pool runs every submitted call, every   *)
(* file operation returns); the kill is up to the operator.               *)

\* a step of main() or of one of its worker calls
Program == RunNext /\ mainpc' # "killed"

FairSpec == Init /\ [][RunNext]_vars /\ WF_vars(Program)

\* C27: under fair scheduling every run comes to its end: it completes, or
\* ends with the critical log entry, unless the process is killed; it does not
\* stay in a stage forever.
C27_RunCompletes ==
    Running ~> (mainpc \in {"done", "crashed", "killed"})

\* a run came to its end although a worker call had ended in an error
C27_Witness ==
    /\ mainpc = "done"
    /\ \E s \in StageSet : \E n \in DOMAIN tpc[s] : tpc[s][n] = "err"

----------------------------------------------------------------------------
\* in this step the save of the state file by a conversion call raised
SaveFailed ==
    \E f \in DOMAIN tpc["convert"] :
        /\ tpc["convert"][f] \in {"wrote", "except"}
        /\ f \in DOMAIN tpc'["convert"]
        /\ tpc'["convert"][f] \in {"ok", "err"}
\* the logged exception came from the handling of one file
SingleFile(exception) == Len(exception) = 2 /\ exception[2] \in AllNames

\* C28: a state file that cannot be written ends the run with the critical log
\* entry and the exit status 1, and no run ends so because of an error that
\* concerns a single file.
C28_TopLevelFailure ==
    [][/\ SaveFailed => mainpc' = "crashed" /\ critical' # <<>>
       /\ mainpc # "crashed" /\ mainpc' = "crashed" =>
              critical' # <<>> /\ ~SingleFile(critical')]_vars

----------------------------------------------------------------------------
\* the .txt and .fasta files of the input directory
InputFiles == {n \in DOMAIN fs["input"] : n.ext \in {"txt", "fasta"}}
\* the run came to its end and no call and no file operation failed
AllStagesSucceeded ==
    /\ mainpc = "done" /\ faults = 0
    /\ \A s \in StageSet : \A n \in DOMAIN tpc[s] : tpc[s][n] \in {"ok", "skipped"}

\* C29: when all stages succeeded, the standardized directory holds one output
\* file for each .txt and each .fasta file of the input directory, and no other.
C29_InputCoverage ==
    AllStagesSucceeded =>
        /\ DOMAIN fs["standardized"] = {Base(n) : n \in InputFiles}
        /\ \A n \in InputFiles : \A m \in InputFiles : Base(n) = Base(m) => n = m

----------------------------------------------------------------------------
\* the converted output b exists and holds the whole content of its input
OutputComplete(b) ==
    /\ b \in DOMAIN fs["converted"]
    /\ fs["converted"][b] = Original(Name(b.stem, "txt"))

\* C30 as stated: in every state, a file that the state file marks as
\* converted has its complete output in the converted directory.
C30_RecordedImpliesWritten ==
    \A b \in ConvertedIn(stateFile) : OutputComplete(b)

\* C30: from the submission of the conversion calls of a run on, through a
\* kill at any later point and until the next start of main(), a file that
\* the state file marks as converted has its complete output in the converted
\* directory.
C30_WriteBeforeRecord ==
    tpc # NoTasks => \A b \in ConvertedIn(stateFile) : OutputComplete(b)

\* the process was killed while one file was recorded as converted and the
\* output of another was open, not yet written
C30_Witness ==
    /\ mainpc = "killed" /\ tpc # NoTasks
    /\ ConvertedIn(stateFile) # {}
    /\ \E b \in DOMAIN fs["converted"] : ~OutputComplete(b)

----------------------------------------------------------------------------
\* the pair is the header of one record of the file with the cleaned sequence
\* of that record
RecordOf(ls, pair) ==
    \E i \in HeaderPositions(ls) :
        /\ Strip(ls[i]) = pair[1]
        /\ CleanedBody(ls, i) = pair[2]

\* C31: at every point of the deduplication each stored pair, and in the end
\* each pair written, is the header of one input record with the cleaned
\* sequence of that same record, stored under the key of that header.
C31_NeverMixed ==
    /\ \A k \in DOMAIN sequences :
           /\ RecordOf(lines, sequences[k])
           /\ FirstField(sequences[k][1]) = k
    /\ dpc = "done" =>
           \A a \in 1..OutCount : RecordOf(lines, <<OutHeader(a), OutSeq(a)>>)

\* before anything is written, the stored record of a key has been replaced by
\* a later, longer record with another header: header and sequence are those
\* of the later record
C31_Witness ==
    /\ dpc = "write"
    /\ \E k \in DOMAIN sequences : \E i, j \in HeaderPositions(lines) :
           /\ i < j /\ j < pos
           /\ KeyAt(lines, i) = k /\ KeyAt(lines, j) = k
           /\ Strip(lines[i]) # Strip(lines[j])
           /\ 0 < Len(CleanedBody(lines, i))
           /\ Len(CleanedBody(lines, i)) < Len(CleanedBody(lines, j))
           /\ sequences[k] = <<Strip(lines[j]), CleanedBody(lines, j)>>

----------------------------------------------------------------------------
\* the keys of the records of a file
InputKeys(ls) == {KeyAt(ls, i) : i \in HeaderPositions(ls)}
\* the records written under a key
OutRecords(key) == {a \in 1..OutCount : FirstField(OutHeader(a)) = key}

\* C32: the deduplicated output holds exactly one record for each key of the
\* input records, the empty key included, and no record of any other key.
C32_KeySetPreserved ==
    dpc = "done" =>
        /\ \A k \in InputKeys(lines) : Cardinality(OutRecords(k)) = 1
        /\ \A a \in 1..OutCount : FirstField(OutHeader(a)) \in InputKeys(lines)

====
